---------------------------- MODULE Spec2Model ----------------------------
(***************************************************************************)
(* Model of eval/chunkers/chonkie_chunk.py: the command-line wrapper that  *)
(* reads a file path and a size budget from argv and the code from stdin,  *)
(* hands the code to a CodeChunker and prints one record per chunk.        *)
(*                                                                         *)
(* The wrapper (argument handling, language choice, the token counter and  *)
(* chunk size it configures, the line mapping, the records, the exception  *)
(* handler) is modelled from the source.  The CodeChunker itself is an     *)
(* imported collaborator whose code is not in the source tree: its         *)
(* constructor, segmenter and greedy packer are modelled from sections     *)
(* 4.1 and 4.2 of the specification, configured exactly as the wrapper     *)
(* configures them.                                                        *)
(*                                                                         *)
(* Text is a sequence of one-character strings; a Python offset o is the   *)
(* position between elements o and o+1, so text[s:e] is SubSeq(text,s+1,e).*)
(***************************************************************************)
EXTENDS Integers, Sequences, FiniteSets

\* ------------------------------------------------------------- bounds
MaxLen == 4
MaxBudget == 4

NL == "\n"
Chars == {"a", NL}
Texts == UNION {[1..n -> Chars] : n \in 0..MaxLen}

\* ------------------------------------------------------ pure helpers
Min(S) == CHOOSE x \in S : \A y \in S : x <= y

\* str.isspace() on the characters of the model's alphabet
isspace(c) == c \in {" ", NL, "\t", "\r"}

\* text[s:e] for 0 <= s <= e <= len(text)
Slice(text, s, e) == SubSeq(text, s + 1, e)

\* the number of elements of text that are in the set S
RECURSIVE CountIn(_, _)
CountIn(text, S) ==
  IF text = << >> THEN 0
  ELSE (IF Head(text) \in S THEN 1 ELSE 0) + CountIn(Tail(text), S)

\* count_nws: sum(1 for c in text if not c.isspace())
count_nws(text) == CountIn(text, {c \in Chars : ~isspace(c)})

\* a counter that also counts an end-of-text token
measure_plus_one(text) == Len(text) + 1
\* the token counter handed to the chunker: lambda x: len(x)
measure(text) == Len(text)

\* line numbers counted from 1
LineOfOneBased(text, index) == CountIn(Slice(text, 0, index), {NL}) + 1
\* code[:index].count("\n")
LineOf(text, index) == CountIn(Slice(text, 0, index), {NL})

\* ---------------------------------------------------------- argv
Digits == <<"0", "1", "2", "3", "4", "5", "6", "7", "8", "9">>
DigitOf(n) == Digits[n + 1]
ValueOf(d) == (CHOOSE i \in 1..Len(Digits) : Digits[i] = d) - 1
IsDigit(d) == \E i \in 1..Len(Digits) : Digits[i] = d

\* the decimal numeral of a small integer, as the shell passes it
Numeral(n) == IF n < 0 THEN <<"-", DigitOf(0 - n)>> ELSE <<DigitOf(n)>>

BudgetArgs == {Numeral(n) : n \in (0 - 1)..MaxBudget} \cup {<<"x">>}

\* int(s) succeeds on an optionally signed run of digits
IsInt(s) ==
  LET body == IF Len(s) > 0 /\ s[1] \in {"-", "+"} THEN Tail(s) ELSE s
  IN  Len(body) > 0 /\ \A i \in 1..Len(body) : IsDigit(body[i])

RECURSIVE Decimal(_)
Decimal(ds) ==
  IF ds = << >> THEN 0
  ELSE 10 * Decimal(SubSeq(ds, 1, Len(ds) - 1)) + ValueOf(ds[Len(ds)])

int(s) ==
  IF s[1] = "-" THEN 0 - Decimal(Tail(s))
  ELSE IF s[1] = "+" THEN Decimal(Tail(s))
  ELSE Decimal(s)

\* a file path is a sequence of name parts, "." separating them
Filepaths == { <<"m", ".", "RS">>, <<"m", ".", "txt">>, <<"Makefile">> }

Argvs == { <<"chonkie_chunk.py", f>> : f \in {<<"Makefile">>} }
         \cup { <<"chonkie_chunk.py", f, b>> : f \in Filepaths, b \in BudgetArgs }

\* str.lower() on the extensions of the model
lower(s) ==
  CASE s = "RS" -> "rs"
    [] s = "PY" -> "py"
    [] OTHER -> s

\* ext = filepath.rsplit(".", 1)[-1].lower() if "." in filepath else ""
ExtOf(path) ==
  IF \E i \in 1..Len(path) : path[i] = "." THEN lower(path[Len(path)]) ELSE ""

lang_keys == {"py", "js", "ts", "tsx", "jsx", "rs", "go", "java", "c", "cpp",
              "h", "hpp", "rb", "php", "cs", "swift", "kt", "scala"}

lang_map(ext) ==
  CASE ext = "py" -> "python"
    [] ext = "js" -> "javascript"
    [] ext = "ts" -> "typescript"
    [] ext = "tsx" -> "tsx"
    [] ext = "jsx" -> "javascript"
    [] ext = "rs" -> "rust"
    [] ext = "go" -> "go"
    [] ext = "java" -> "java"
    [] ext = "c" -> "c"
    [] ext = "cpp" -> "cpp"
    [] ext = "h" -> "c"
    [] ext = "hpp" -> "cpp"
    [] ext = "rb" -> "ruby"
    [] ext = "php" -> "php"
    [] ext = "cs" -> "c_sharp"
    [] ext = "swift" -> "swift"
    [] ext = "kt" -> "kotlin"
    [] ext = "scala" -> "scala"

\* language = lang_map.get(ext, "python")
LanguageOrUnknown(ext) ==
  IF ext \in lang_keys THEN lang_map(ext) ELSE "unknown"
LanguageOf(ext) == IF ext \in lang_keys THEN lang_map(ext) ELSE "python"

Grammars == {lang_map(e) : e \in lang_keys}

\* ------------------------------------------------------------- state
VARIABLES
  argv,            \* sys.argv
  stdin,           \* the text waiting on standard input
  pc,              \* where main() is
  filepath,        \* sys.argv[1]
  max_chunk_size,  \* int(sys.argv[2])
  code,            \* sys.stdin.read()
  language,        \* the language handed to the chunker
  chunker,         \* the constructed CodeChunker, or NoChunker
  fallback,        \* the segmenter fell back to line boundaries
  segBoundaries,   \* the boundaries the segmenter returned
  boundaries,      \* the packer's boundary list, refined by subdivision
  windowStart,     \* the packer's window [windowStart, cursor)
  cursor,
  chunks,          \* the chunks chunker.chunk(code) has emitted
  results,         \* the records built so far
  stdout,          \* the values printed to standard output
  stderr,          \* the values printed to standard error
  exit_code        \* the process's exit status, or Running

vars == <<argv, stdin, pc, filepath, max_chunk_size, code, language, chunker,
          fallback, segBoundaries, boundaries, windowStart, cursor, chunks,
          results, stdout, stderr, exit_code>>

NoChunker == [chunk_size |-> 0, language |-> "", tokenizer |-> "none"]
Running == 0 - 1
NoPath == << >>

Init ==
  /\ argv \in Argvs
  /\ stdin \in Texts
  /\ pc = "start"
  /\ filepath = NoPath
  /\ max_chunk_size = 0
  /\ code = << >>
  /\ language = ""
  /\ chunker = NoChunker
  /\ fallback = FALSE
  /\ segBoundaries = {}
  /\ boundaries = {}
  /\ windowStart = 0
  /\ cursor = 0
  /\ chunks = << >>
  /\ results = << >>
  /\ stdout = << >>
  /\ stderr = << >>
  /\ exit_code = Running

\* --------------------------------------------------- main, lines 20-54
\* if len(sys.argv) < 3: usage on stderr, sys.exit(1)
Usage ==
  /\ pc = "start"
  /\ Len(argv) < 3
  /\ stderr' = <<"Usage: chonkie_chunk.py <filepath> <max_chunk_size>",
                 "Code is read from stdin">>
  /\ exit_code' = 1
  /\ pc' = "exit"
  /\ UNCHANGED <<argv, stdin, filepath, max_chunk_size, code, language,
                 chunker, fallback, segBoundaries, boundaries, windowStart,
                 cursor, chunks, results, stdout>>

\* int(sys.argv[2]) raises ValueError outside the try block: the interpreter
\* prints the traceback and exits with status 1
BadBudget ==
  /\ pc = "start"
  /\ Len(argv) >= 3
  /\ ~IsInt(argv[3])
  /\ filepath' = argv[2]
  /\ stderr' = <<"Traceback: ValueError">>
  /\ exit_code' = 1
  /\ pc' = "exit"
  /\ UNCHANGED <<argv, stdin, max_chunk_size, code, language, chunker,
                 fallback, segBoundaries, boundaries, windowStart, cursor,
                 chunks, results, stdout>>

\* filepath, max_chunk_size, code, ext and language are set
ReadInput ==
  /\ pc = "start"
  /\ Len(argv) >= 3
  /\ IsInt(argv[3])
  /\ filepath' = argv[2]
  /\ max_chunk_size' = int(argv[3])
  /\ code' = stdin
  /\ stdin' = << >>
  /\ language' = LanguageOf(ExtOf(argv[2]))
  /\ pc' = "construct"
  /\ UNCHANGED <<argv, chunker, fallback, segBoundaries, boundaries,
                 windowStart, cursor, chunks, results, stdout, stderr,
                 exit_code>>

\* ------------------------------------ CodeChunker(...), lines 59-64
\* tokenizer_or_token_counter=lambda x: len(x) is the operator measure
chunk_size_plus_one == max_chunk_size + 1
chunk_size_minus_one == max_chunk_size - 1
\* chunk_size=max_chunk_size
chunk_size == max_chunk_size

\* a budget <= 0 is a configuration error, raised before any packing
ConstructRaises ==
  /\ pc = "construct"
  /\ chunk_size <= 0
  /\ pc' = "except"
  /\ UNCHANGED <<argv, stdin, filepath, max_chunk_size, code, language,
                 chunker, fallback, segBoundaries, boundaries, windowStart,
                 cursor, chunks, results, stdout, stderr, exit_code>>

Construct ==
  /\ pc = "construct"
  /\ chunk_size > 0
  /\ chunker' = [chunk_size |-> chunk_size, language |-> language,
                 tokenizer |-> "lambda x: len(x)"]
  /\ pc' = "segment"
  /\ UNCHANGED <<argv, stdin, filepath, max_chunk_size, code, language,
                 fallback, segBoundaries, boundaries, windowStart, cursor,
                 chunks, results, stdout, stderr, exit_code>>

\* ----------------------------------- chunker.chunk(code): the segmenter
\* the offsets strictly between s and e
Interior(s, e) == {o \in 0..Len(code) : s < o /\ o < e}

\* the offsets at which a line starts, other than offset 0
LineStarts(text) == {o \in 1..Len(text) : text[o] = NL /\ o < Len(text)}

\* the boundary sets a grammar may return for the text: offset 0, the end of
\* the text, and the starts of the nodes the parser found
GrammarBoundaries(text) ==
  {{0, Len(text)} \cup nodes : nodes \in SUBSET Interior(0, Len(text))}

LineBoundaries(text) == {0, Len(text)} \cup LineStarts(text)

\* segment(text, language) with a grammar that parses the text
SegmentByGrammar ==
  /\ pc = "segment"
  /\ chunker.language \in Grammars
  /\ \E bs \in GrammarBoundaries(code) :
       /\ segBoundaries' = bs
       /\ boundaries' = bs
  /\ fallback' = FALSE
  /\ windowStart' = 0
  /\ cursor' = 0
  /\ pc' = "pack"
  /\ UNCHANGED <<argv, stdin, filepath, max_chunk_size, code, language,
                 chunker, chunks, results, stdout, stderr, exit_code>>

\* segment(text, language) without a grammar, or when parsing fails: a
\* boundary at the start of every line
SegmentByLines ==
  /\ pc = "segment"
  /\ segBoundaries' = LineBoundaries(code)
  /\ boundaries' = LineBoundaries(code)
  /\ fallback' = TRUE
  /\ windowStart' = 0
  /\ cursor' = 0
  /\ pc' = "pack"
  /\ UNCHANGED <<argv, stdin, filepath, max_chunk_size, code, language,
                 chunker, chunks, results, stdout, stderr, exit_code>>

\* ------------------------------------- chunker.chunk(code): the packer
HasNext == \E b \in boundaries : b > cursor
NextBoundary == Min({b \in boundaries : b > cursor})
Candidate == Slice(code, windowStart, NextBoundary)
CandidateSize == measure(Candidate)
Fits == CandidateSize <= chunker.chunk_size

Chunk(s, e) == [text |-> Slice(code, s, e), start_index |-> s, end_index |-> e]

\* the candidate fits (a candidate exactly at budget included): extend
PackExtend ==
  /\ pc = "pack"
  /\ HasNext
  /\ Fits
  /\ cursor' = NextBoundary
  /\ UNCHANGED <<argv, stdin, pc, filepath, max_chunk_size, code, language,
                 chunker, fallback, segBoundaries, boundaries, windowStart,
                 chunks, results, stdout, stderr, exit_code>>

\* the candidate exceeds the budget and the window is not empty: close the
\* chunk at the previous boundary and open a new window there
PackClose ==
  /\ pc = "pack"
  /\ HasNext
  /\ ~Fits
  /\ cursor > windowStart
  /\ chunks' = Append(chunks, Chunk(windowStart, cursor))
  /\ windowStart' = cursor
  /\ UNCHANGED <<argv, stdin, pc, filepath, max_chunk_size, code, language,
                 chunker, fallback, segBoundaries, boundaries, cursor,
                 results, stdout, stderr, exit_code>>

\* the split points of the last-resort split of text[s:e]: every budget
\* characters
RawPoints(s, e) ==
  {o \in Interior(s, e) :
     \E k \in 1..Len(code) : o = s + k * chunker.chunk_size}

\* the finer nodes a grammar may expose inside text[s:e]
ChildNodes(s, e) ==
  IF fallback THEN {{}} ELSE SUBSET Interior(s, e)

\* the boundaries that subdivide the unit text[s:e]: the grammar's child
\* nodes, else the line starts, else the raw split
SubBoundaries(s, e, children) ==
  IF children # {} THEN children
  ELSE IF LineStarts(code) \cap Interior(s, e) # {}
       THEN LineStarts(code) \cap Interior(s, e)
       ELSE RawPoints(s, e)

\* a single unit exceeds the budget: subdivide it
Subdivide ==
  /\ pc = "pack"
  /\ HasNext
  /\ ~Fits
  /\ cursor = windowStart
  /\ \E children \in ChildNodes(windowStart, NextBoundary) :
       boundaries' =
         boundaries \cup SubBoundaries(windowStart, NextBoundary, children)
  /\ UNCHANGED <<argv, stdin, pc, filepath, max_chunk_size, code, language,
                 chunker, fallback, segBoundaries, windowStart, cursor,
                 chunks, results, stdout, stderr, exit_code>>

\* the end of the input: close the final open window
PackFinish ==
  /\ pc = "pack"
  /\ ~HasNext
  /\ chunks' = IF cursor > windowStart
                THEN Append(chunks, Chunk(windowStart, cursor))
                ELSE chunks
  /\ windowStart' = cursor
  /\ pc' = "assemble"
  /\ UNCHANGED <<argv, stdin, filepath, max_chunk_size, code, language,
                 chunker, fallback, segBoundaries, boundaries, cursor,
                 results, stdout, stderr, exit_code>>

\* ---------------------------------------------------- main, lines 68-88
\* the record built from one chunk
ResultOfLineSlice(chunk) ==
  LET start_line == LineOf(code, chunk.start_index)
      end_line == LineOf(code, chunk.end_index)
  IN  [id |-> <<filepath, ":", start_line, "-", end_line>>,
       text |-> Slice(code, start_line, end_line),
       startLine |-> start_line,
       endLine |-> end_line]
ResultOf(chunk) ==
  LET start_line == LineOf(code, chunk.start_index)
      end_line == LineOf(code, chunk.end_index)
  IN  [id |-> <<filepath, ":", start_line, "-", end_line>>,
       text |-> chunk.text,
       startLine |-> start_line,
       endLine |-> end_line]

\* one turn of: for chunk in chunks
Assemble ==
  /\ pc = "assemble"
  /\ Len(results) < Len(chunks)
  /\ results' = Append(results, ResultOf(chunks[Len(results) + 1]))
  /\ UNCHANGED <<argv, stdin, pc, filepath, max_chunk_size, code, language,
                 chunker, fallback, segBoundaries, boundaries, windowStart,
                 cursor, chunks, stdout, stderr, exit_code>>

\* print(json.dumps(results)) and the normal return
PrintResults ==
  /\ pc = "assemble"
  /\ Len(results) = Len(chunks)
  /\ stdout' = Append(stdout, results)
  /\ exit_code' = 0
  /\ pc' = "exit"
  /\ UNCHANGED <<argv, stdin, filepath, max_chunk_size, code, language,
                 chunker, fallback, segBoundaries, boundaries, windowStart,
                 cursor, chunks, results, stderr>>

\* the error printed without file=sys.stderr
HandleExceptionToStdout ==
  /\ pc = "except"
  /\ stdout' = Append(stdout, [error |-> "chunk_size must be positive"])
  /\ exit_code' = 1
  /\ pc' = "exit"
  /\ UNCHANGED <<argv, stdin, filepath, max_chunk_size, code, language,
                 chunker, fallback, segBoundaries, boundaries, windowStart,
                 cursor, chunks, results, stderr>>
\* except Exception as e: the error on stderr, sys.exit(1)
HandleException ==
  /\ pc = "except"
  /\ stderr' = Append(stderr, [error |-> "chunk_size must be positive"])
  /\ exit_code' = 1
  /\ pc' = "exit"
  /\ UNCHANGED <<argv, stdin, filepath, max_chunk_size, code, language,
                 chunker, fallback, segBoundaries, boundaries, windowStart,
                 cursor, chunks, results, stdout>>

Next ==
  \/ Usage
  \/ BadBudget
  \/ ReadInput
  \/ ConstructRaises
  \/ Construct
  \/ SegmentByGrammar
  \/ SegmentByLines
  \/ PackExtend
  \/ PackClose
  \/ Subdivide
  \/ PackFinish
  \/ Assemble
  \/ PrintResults
  \/ HandleException

Spec == Init /\ [][Next]_vars

\* main() runs to its end: no step of it waits on anything
LiveSpec == Init /\ [][Next]_vars /\ WF_vars(Next)

\* =============================================================== claims
\* chunker.chunk(code) has returned its chunks
Returned == pc = "assemble" \/ (pc = "exit" /\ exit_code = 0)
\* main() got a file path and an integer budget
BudgetGiven == Len(argv) >= 3 /\ IsInt(argv[3])
\* the file path's extension is not a key of lang_map
Unrecognized == ExtOf(filepath) \notin lang_keys
\* the number of newline characters in text[0:offset]
NewlinesBefore(text, offset) ==
  Cardinality({k \in 1..offset : text[k] = NL})

RECURSIVE ConcatText(_)
ConcatText(rs) ==
  IF rs = << >> THEN << >> ELSE Head(rs).text \o ConcatText(Tail(rs))

\* C1: the returned chunks partition the text: the first starts at offset
\* 0, each starts where the previous one ended, the last ends at len(text),
\* each chunk's text is text[startOffset:endOffset], and the texts of the
\* chunks, and of the printed records, concatenate to the source text.
C1_Partition ==
  Returned =>
    /\ chunks # << >> =>
          /\ chunks[1].start_index = 0
          /\ chunks[Len(chunks)].end_index = Len(code)
    /\ \A i \in 1..Len(chunks) - 1 :
          chunks[i + 1].start_index = chunks[i].end_index
    /\ \A i \in 1..Len(chunks) :
          /\ chunks[i].start_index < chunks[i].end_index
          /\ chunks[i].text =
               SubSeq(code, chunks[i].start_index + 1, chunks[i].end_index)
    /\ ConcatText(chunks) = code
    /\ pc = "exit" => ConcatText(stdout[1]) = code

C1_Witness ==
  /\ pc = "exit"
  /\ exit_code = 0
  /\ Len(stdout[1]) >= 3
  /\ \E i \in 1..Len(code) : code[i] = NL

\* C2: every returned chunk measures at most the budget under the metric
\* the packer uses (the number of characters), the chunks cut out of a
\* single over-wide line by the raw split included.
C2_BudgetRespected ==
  Returned =>
    /\ \A i \in 1..Len(chunks) : Len(chunks[i].text) <= max_chunk_size
    /\ pc = "exit" =>
          \A i \in 1..Len(stdout[1]) :
            Len(stdout[1][i].text) <= max_chunk_size

\* a text of one line, segmented as one unit, wider than the budget
C2_Witness ==
  /\ pc = "exit"
  /\ exit_code = 0
  /\ segBoundaries = {0, Len(code)}
  /\ LineStarts(code) = {}
  /\ Len(code) > max_chunk_size
  /\ boundaries = segBoundaries \cup RawPoints(0, Len(code))
  /\ Len(stdout[1]) >= 2

\* C3: with a budget <= 0 the run fails with a configuration error before
\* any segmentation or packing step, and prints no chunk, whatever the text.
C3_ConfigurationError ==
  (pc # "start" /\ BudgetGiven /\ int(argv[3]) <= 0) =>
    /\ pc \in {"construct", "except", "exit"}
    /\ chunker = NoChunker
    /\ segBoundaries = {} /\ boundaries = {}
    /\ chunks = << >> /\ results = << >>
    /\ stdout = << >>
    /\ pc = "exit" => exit_code = 1 /\ Len(stderr) = 1

C3_Witness ==
  /\ pc = "exit"
  /\ BudgetGiven
  /\ max_chunk_size < 0
  /\ code # << >>
  /\ exit_code = 1

\* C4: the size compared against the budget is the number of non-whitespace
\* characters of the candidate, so a candidate fits exactly when its
\* non-whitespace count is within the budget.
C4_SizeIsNonWhitespaceCount ==
  (pc = "pack" /\ HasNext) =>
    /\ CandidateSize = count_nws(Candidate)
    /\ Fits <=> count_nws(Candidate) <= max_chunk_size

\* C5: each record's startLine and endLine are the numbers of newline
\* characters before the chunk's start and end offsets, both are >= 0, and
\* a record's endLine is at most the next record's startLine.
C5_LineNumbers ==
  /\ \A i \in 1..Len(results) :
        /\ results[i].startLine =
             NewlinesBefore(code, chunks[i].start_index)
        /\ results[i].endLine = NewlinesBefore(code, chunks[i].end_index)
        /\ results[i].startLine >= 0
        /\ results[i].endLine >= 0
  /\ \A i \in 1..Len(results) - 1 :
        results[i].endLine <= results[i + 1].startLine

C5_Witness ==
  /\ pc = "exit"
  /\ exit_code = 0
  /\ Len(stdout[1]) >= 2
  /\ stdout[1][2].startLine >= 1
  /\ stdout[1][2].endLine > stdout[1][2].startLine

\* the segmenter has run
Segmented == pc \in {"pack", "assemble"} \/ (pc = "exit" /\ exit_code = 0)

\* the single record that covers the whole text
WholeTextRecord ==
  [id |-> <<filepath, ":", 0, "-", NewlinesBefore(code, Len(code))>>,
   text |-> code,
   startLine |-> 0,
   endLine |-> NewlinesBefore(code, Len(code))]

C7_EmptyInput ==
  (pc = "exit" /\ BudgetGiven /\ int(argv[3]) > 0 /\ code = << >>) =>
    /\ chunks = << >>
    /\ stdout = << << >> >>
    /\ stderr = << >>
    /\ exit_code = 0

C7_Witness ==
  /\ pc = "exit"
  /\ max_chunk_size > 0
  /\ code = << >>
  /\ stdout = << << >> >>

\* C8: every run ends: the packer's forward pass and the subdivision of an
\* oversized unit (child boundaries, then lines, then the raw split) finish.
C8_Terminates == <>(pc = "exit")

\* a run that subdivided a unit down to the raw split and ended
C8_Witness ==
  /\ pc = "exit"
  /\ exit_code = 0
  /\ boundaries # segBoundaries
  /\ \E o \in boundaries : o \notin segBoundaries \cup LineStarts(code)
  /\ Len(chunks) >= 3

\* C9: when the packer closes a chunk before the end of the text, its text
\* up to the next boundary, and up to every later one, is strictly larger
\* than the budget; a candidate exactly at the budget is taken into the
\* window and no chunk is cut before it.
C9_GreedyMaximal ==
  /\ [][(pc' = "pack" /\ Len(chunks') = Len(chunks) + 1) =>
          LET c == chunks'[Len(chunks')] IN
            /\ c.end_index = cursor
            /\ \A b \in boundaries :
                  b > c.end_index =>
                    Len(SubSeq(code, c.start_index + 1, b)) > max_chunk_size
       ]_vars
  /\ [][(pc = "pack" /\ HasNext
           /\ Len(SubSeq(code, windowStart + 1, NextBoundary))
                = max_chunk_size) =>
          (cursor' = NextBoundary /\ chunks' = chunks)
       ]_vars

\* a chunk of two units, exactly at the budget, closed before the end
C9_Witness ==
  /\ pc = "exit"
  /\ exit_code = 0
  /\ \E i \in 1..Len(chunks) :
        /\ Len(chunks[i].text) = max_chunk_size
        /\ chunks[i].end_index < Len(code)
        /\ \E o \in segBoundaries :
              chunks[i].start_index < o /\ o < chunks[i].end_index

\* the segmenter's units: text between two consecutive boundaries
SegUnits ==
  {u \in segBoundaries \X segBoundaries :
     /\ u[1] < u[2]
     /\ ~\E o \in segBoundaries : u[1] < o /\ o < u[2]}

\* C10: every cut between two chunks is at a boundary of the segmenter,
\* unless it is inside one unit that alone exceeds the budget; a chunk cut
\* at a boundary could not have taken the next unit within the budget.
C10_BoundaryPreference ==
  Returned =>
    \A i \in 1..Len(chunks) - 1 :
      LET cut == chunks[i].end_index IN
        /\ \/ cut \in segBoundaries
           \/ \E u \in SegUnits :
                /\ u[1] < cut /\ cut < u[2]
                /\ Len(SubSeq(code, u[1] + 1, u[2])) > max_chunk_size
        /\ cut \in segBoundaries =>
             \E u \in SegUnits :
               /\ u[1] = cut
               /\ Len(SubSeq(code, chunks[i].start_index + 1, u[2]))
                    > max_chunk_size

\* two units merged into one chunk, and the next chunk starting at the
\* third unit's boundary
C10_Witness ==
  /\ pc = "exit"
  /\ exit_code = 0
  /\ Len(chunks) = 2
  /\ boundaries = segBoundaries
  /\ chunks[1].end_index \in segBoundaries
  /\ \E o \in segBoundaries : 0 < o /\ o < chunks[1].end_index

=============================================================================
